---- MODULE Spec2Model ----
(***************************************************************************)
(* A model of legume/minimize.py: the class Minimize, its bounds parser,   *)
(* the Adam driver and the L-BFGS-B adapter.                               *)
(*                                                                         *)
(* Python objects that the code shares by reference are kept in heaps:     *)
(*   arrays  - the numpy arrays a call can reach: the caller's pstart and  *)
(*             the array made by the latest "params - step" (or handed     *)
(*             over by the solver); self.params is a reference into it;    *)
(*   lists   - every list object ever bound to self.of_list; self.of_list  *)
(*             is an index into it, and the traces handed back to callers  *)
(*             are indices too.                                            *)
(* Reals are modelled by integers.  The Adam displacement                  *)
(* step_size*grad_adam is a real-valued function of the gradient history;  *)
(* it is drawn from a small set of integer vectors, which over-            *)
(* approximates every gradient sequence.  Objective values are numbered    *)
(* by a global evaluation clock, so that two evaluations never return the  *)
(* same number and a stale value is recognisable.                          *)
(***************************************************************************)
EXTENDS Integers, Sequences, FiniteSets, TLC

\* ---------------------------------------------------------------- bounds
MaxN == 3          \* largest parameter count
MaxEpochs == 2     \* largest Nepochs
MaxCalls == 2      \* calls made on the one Minimize instance
MaxFun == 2        \* objective-wrapper calls the solver makes in one run

\* ---------------------------------------------------------- input domains
StartVals == {-1, 1, 4}                   \* elements of pstart
BoundPairs == {<<0, 2>>, <<1, 3>>}        \* the (lb, ub) pairs, lb <= ub
DispVals == {-2, 2}                       \* elements of step_size*grad_adam

RECURSIVE Const(_, _)
Const(n, v) == IF n = 0 THEN <<>> ELSE Append(Const(n - 1, v), v)

\* vectors of length n with every element from S
Vecs(n, S) == [1..n -> S]

\* ------------------------------------------------------------ Python data
\* A Python value as far as bounds are concerned: a number (rank 0), a pair
\* of numbers (rank 1) or a pair of pairs (rank 2), kept flattened.
Num(x) == [rank |-> 0, flat |-> <<x>>]
Pair(lb, ub) == [rank |-> 1, flat |-> <<lb, ub>>]

\* tuple(s) for a two-element sequence s of values of one rank
PyTuple(s) == [rank |-> s[1].rank + 1, flat |-> s[1].flat \o s[2].flat]

\* b[i] for a two-element tuple b, i = 0 or 1 (Python indexing)
Item(b, i) ==
  LET h == Len(b.flat) \div 2
  IN  [rank |-> b.rank - 1, flat |-> SubSeq(b.flat, i * h + 1, (i + 1) * h)]

\* The bounds argument: None, or a list of values.
NoBounds == [isNone |-> TRUE, items |-> <<>>]
BoundsList(s) == [isNone |-> FALSE, items |-> s]

\* [lb, ub]
FlatBounds == { BoundsList(<<Num(p[1]), Num(p[2])>>) : p \in BoundPairs }
\* [(lb_1, ub_1), ..., (lb_k, ub_k)]
PairBounds(k) ==
  { BoundsList([i \in 1..k |-> Pair(f[i][1], f[i][2])]) : f \in [1..k -> BoundPairs] }

BoundsArgs == {NoBounds} \cup FlatBounds \cup UNION { PairBounds(k) : k \in 1..MaxN }

\* ------------------------------------------------------------------ state
VARIABLES
  jac,        \* self.jac: "joint" (True: objective returns (of, grad)) or "fn"
  iteration,  \* self.iteration
  of_list,    \* self.of_list, an index into lists
  of_last,    \* self.of_last: <<>> while the attribute is unset, else <<v>>
  params,     \* self.params: "unset", or a reference into arrays
  bounds,     \* self.bounds, the parsed bounds
  Nepochs,    \* self.Nepochs
  arrays,     \* heap of arrays: the caller's pstart and the newest other array
  lists,      \* heap of list objects
  pc,         \* "idle", "adam" (inside adam's loop) or "lbfgs" (inside minimize)
  method,     \* the driver of the latest call: "none", "adam" or "lbfgs"
  boundsArg,  \* the latest call's bounds argument
  pstart0,    \* the element values pstart held when the latest call was made
  it,         \* adam's loop variable: the iterations already done
  err,        \* how the latest call ended: "none" (returned) or the exception
  result,     \* what the latest call returned
  returned,   \* every trace handed back so far, with its content at that time
  ncalls,     \* calls made so far
  clock,      \* objective evaluations made so far, over all calls
  nObj,       \* objective evaluations made by the latest call
  nGrad,      \* calls of the separate gradient function made by the latest call
  nUpd,       \* parameter updates applied by the latest call
  ncb,        \* callback invocations made by the solver in the latest call
  solver,     \* whether the latest call invoked the external solver
  objres,     \* what the user objective returned to the wrapper last
  ret         \* what the objective wrapper returned to the solver last

self == <<jac, iteration, of_list, of_last, params, bounds, Nepochs>>
heap == <<arrays, lists>>
call == <<pc, method, boundsArg, pstart0, it, err, result, returned, ncalls>>
ghost == <<clock, nObj, nGrad, nUpd, ncb, solver, objres, ret>>
vars == <<self, heap, call, ghost>>

\* The exceptions a call can end with.
ConfigError == "ValueError: 'bounds' should be a list of two elements ..."
BroadcastError == "ValueError: operands could not be broadcast together"
IndexingError == "IndexError: too many indices for array"
IterError == "TypeError: object is not iterable"
SolverError == "exception raised by scipy.optimize.minimize"
AttrError == "AttributeError: no attribute 'of_last'"

\* An objective value: a plain number, or an autograd ArrayBox around one.
Plain(v) == [box |-> FALSE, val |-> v]
Boxed(v) == [box |-> TRUE, val |-> v]

\* What the user objective returns: a bare scalar, or the pair (of, grad).
Scalar(v) == [iterable |-> FALSE, items |-> <<v>>]
Joint(v, g) == [iterable |-> TRUE, items |-> <<v, g>>]
NoReturn == [iterable |-> FALSE, items |-> <<>>]
NoResult == [x |-> <<>>, xref |-> "unset", trace |-> 0]

\* ---------------------------------------------------------- Minimize.__init__
Init ==
  /\ jac \in {"joint", "fn"}
  /\ iteration = 0
  /\ lists = << <<>> >>
  /\ of_list = 1
  /\ of_last = <<>>
  /\ params = "unset"
  /\ bounds = NoBounds
  /\ Nepochs = 0
  /\ arrays = [pstart |-> <<>>, fresh |-> <<>>]
  /\ pc = "idle"
  /\ method = "none"
  /\ boundsArg = NoBounds
  /\ pstart0 = <<>>
  /\ it = 0
  /\ err = "none"
  /\ result = NoResult
  /\ returned = <<>>
  /\ ncalls = 0
  /\ clock = 0
  /\ nObj = 0
  /\ nGrad = 0
  /\ nUpd = 0
  /\ ncb = 0
  /\ solver = FALSE
  /\ objres = NoReturn
  /\ ret = NoReturn

\* --------------------------------------------------------- Minimize._get_value
GetValue(x) == IF x.box THEN Plain(x.val) ELSE x

\* ------------------------------------------------------ Minimize._parse_bounds
\* a parser that accepts a sequence of any length
NeverRaises(b, n) == FALSE

\* whether _parse_bounds raises for bounds b and self.params.size = n
ParseRaises(b, n) ==
  /\ ~b.isNone
  /\ Len(b.items) # 2
  /\ Len(b.items) # n

\* what _parse_bounds returns when it does not raise
ParseBounds(b, n) ==
  IF b.isNone THEN NoBounds
  ELSE IF Len(b.items) = 2 THEN BoundsList([i \in 1..n |-> PyTuple(b.items)])
  ELSE b

\* a restart that empties the list object in place instead of binding a new one
ClearInPlace ==
  /\ iteration' = 0
  /\ lists' = [lists EXCEPT ![of_list] = <<>>]
  /\ of_list' = of_list

\* ------------------------------------------- "Restart the counters" (both drivers)
\* self.iteration = 0; self.of_list = []  (a new list object)
RestartCounters ==
  /\ iteration' = 0
  /\ lists' = Append(lists, <<>>)
  /\ of_list' = Len(lists) + 1

\* What every call does on entry, before anything can raise: the caller's
\* array becomes self.params, and the per-call bookkeeping starts afresh.
Enter(m, ps, b) ==
  /\ pc = "idle"
  /\ ncalls' = ncalls + 1
  /\ method' = m
  /\ boundsArg' = b
  /\ pstart0' = ps
  /\ params' = "pstart"
  /\ arrays' = [pstart |-> ps, fresh |-> <<>>]
  /\ it' = 0
  /\ result' = NoResult
  /\ nObj' = 0
  /\ nGrad' = 0
  /\ nUpd' = 0
  /\ ncb' = 0
  /\ objres' = NoReturn
  /\ ret' = NoReturn
  /\ UNCHANGED <<jac, of_last, returned, clock>>

\* ------------------------------------------------------------- Minimize.adam
\* lines 75-88: up to the loop
AdamCall(ps, N, b) ==
  /\ Enter("adam", ps, b)
  /\ solver' = FALSE
  /\ IF ParseRaises(b, Len(ps))
       THEN /\ err' = ConfigError
            /\ pc' = "idle"
            /\ UNCHANGED <<bounds, Nepochs, iteration, lists, of_list>>
       ELSE /\ bounds' = ParseBounds(b, Len(ps))
            /\ Nepochs' = N
            /\ RestartCounters
            /\ err' = "none"
            /\ pc' = "adam"

\* a loop that runs once more: range(Nepochs + 1)
InRangeInclusive(i, N) == i <= N

\* for iteration in range(Nepochs)
InRange(i, N) == i < N

\* an update applied in every iteration of the loop
StepAlways(i, N) == i < N

\* if iteration < Nepochs-1
StepApplied(i, N) == i < N - 1

\* if bounds:  (the argument, a list or None)
Truthy(b) == ~b.isNone /\ Len(b.items) > 0

\* np.array([b[i] for b in self.bounds]) as a vector, when every b[i] is a number
Column(bs, i) == [k \in 1..Len(bs.items) |-> Item(bs.items[k], i).flat[1]]

\* a projection that forgets the upper bounds
ClampLowerOnly(p, lbs, ubs) ==
  [k \in 1..Len(p) |-> IF p[k] < lbs[k] THEN lbs[k] ELSE p[k]]

\* lines 117-118: snap to the lower bounds, then to the upper bounds
Clamp(p, lbs, ubs) ==
  LET low == [k \in 1..Len(p) |-> IF p[k] < lbs[k] THEN lbs[k] ELSE p[k]]
  IN  [k \in 1..Len(p) |-> IF low[k] > ubs[k] THEN ubs[k] ELSE low[k]]

\* The exception lines 117-118 raise, or "none".  When the entries of
\* self.bounds are pairs of pairs, lbs and ubs have shape (n, 2): comparing
\* them with params of shape (n,) cannot be broadcast for n >= 3, and for
\* n <= 2 gives a two-dimensional mask, which cannot index params.
ClampError(bs, n) ==
  IF bs.items[1].rank = 1 THEN "none"
  ELSE IF n >= 3 THEN BroadcastError
  ELSE IndexingError

\* lines 91-118: one pass of the loop body.  bx: whether the objective's
\* value is an ArrayBox; d: step_size*grad_adam of this iteration.
AdamIter(bx, d) ==
  /\ pc = "adam"
  /\ InRange(it, Nepochs)
  /\ Len(d) = Len(arrays[params])
  /\ LET cur == arrays[params]
         of == IF bx THEN Boxed(clock + 1) ELSE Plain(clock + 1)
         upd == StepApplied(it, Nepochs)
         ref == IF upd THEN "fresh" ELSE params
         stepped == IF upd THEN [k \in 1..Len(cur) |-> cur[k] - d[k]] ELSE cur
         fails == IF Truthy(boundsArg) THEN ClampError(bounds, Len(cur)) ELSE "none"
     IN  /\ iteration' = iteration + 1
         /\ clock' = clock + 1
         /\ nObj' = nObj + 1
         /\ nGrad' = IF jac = "joint" THEN nGrad ELSE nGrad + 1
         /\ lists' = [lists EXCEPT ![of_list] = Append(@, GetValue(of))]
         /\ nUpd' = IF upd THEN nUpd + 1 ELSE nUpd
         /\ params' = ref
         /\ IF fails # "none"
              THEN /\ arrays' = [arrays EXCEPT ![ref] = stepped]
                   /\ err' = fails
                   /\ pc' = "idle"
                   /\ it' = it
              ELSE /\ arrays' = [arrays EXCEPT ![ref] =
                                   IF Truthy(boundsArg)
                                     THEN Clamp(stepped, Column(bounds, 0), Column(bounds, 1))
                                     ELSE stepped]
                   /\ it' = it + 1
                   /\ UNCHANGED <<err, pc>>
  /\ UNCHANGED <<jac, of_list, of_last, bounds, Nepochs>>
  /\ UNCHANGED <<method, boundsArg, pstart0, result, returned, ncalls>>
  /\ UNCHANGED <<ncb, solver, objres, ret>>

\* line 120: return (self.params, self.of_list)
AdamReturn ==
  /\ pc = "adam"
  /\ ~InRange(it, Nepochs)
  /\ pc' = "idle"
  /\ result' = [x |-> arrays[params], xref |-> params, trace |-> of_list]
  /\ returned' = Append(returned, [trace |-> of_list, snap |-> lists[of_list]])
  /\ UNCHANGED <<self, heap, ghost>>
  /\ UNCHANGED <<method, boundsArg, pstart0, it, err, ncalls>>

\* ------------------------------------------------------------ Minimize.lbfgs
\* lines 157-165 and the entry into minimize (line 192).  The solver turns
\* the bounds into two vectors of numbers before it evaluates anything, and
\* raises when an entry's lower or upper bound is itself a pair.
LbfgsCall(ps, N, b) ==
  /\ Enter("lbfgs", ps, b)
  /\ IF ParseRaises(b, Len(ps))
       THEN /\ err' = ConfigError
            /\ pc' = "idle"
            /\ solver' = FALSE
            /\ UNCHANGED <<bounds, Nepochs, iteration, lists, of_list>>
       ELSE /\ bounds' = ParseBounds(b, Len(ps))
            /\ Nepochs' = N
            /\ RestartCounters
            /\ solver' = TRUE
            /\ IF ~b.isNone /\ ParseBounds(b, Len(ps)).items[1].rank # 1
                 THEN err' = SolverError /\ pc' = "idle"
                 ELSE err' = "none" /\ pc' = "lbfgs"

\* list(x): the items of an iterable
PyList(x) == x.items

\* tuple(out)
ToTuple(out) == [iterable |-> TRUE, items |-> out]

\* a cache that is written by the first wrapper call only
CacheFirst(old, v) == IF old = <<>> THEN <<v>> ELSE old

\* line 177: self.of_last = self._get_value(out[0])
CacheValue(old, v) == <<v>>

\* lines 167-178, called by the solver: the objective wrapper `of`.
\* bx: whether the objective's value is an ArrayBox; g: the gradient.
SolverEval(bx, g) ==
  /\ pc = "lbfgs"
  /\ nObj < MaxFun
  /\ Len(g) = Len(pstart0)
  /\ LET v == IF bx THEN Boxed(clock + 1) ELSE Plain(clock + 1)
         res == IF jac = "joint" THEN Joint(v, g) ELSE Scalar(v)
     IN  /\ clock' = clock + 1
         /\ nObj' = nObj + 1
         /\ objres' = res
         /\ IF res.iterable
              THEN /\ of_last' = CacheValue(of_last, GetValue(PyList(res)[1]))
                   /\ ret' = ToTuple(PyList(res))
                   /\ UNCHANGED <<err, pc>>
              ELSE /\ err' = IterError
                   /\ pc' = "idle"
                   /\ UNCHANGED <<of_last, ret>>
  /\ UNCHANGED <<jac, iteration, of_list, params, bounds, Nepochs, heap>>
  /\ UNCHANGED <<method, boundsArg, pstart0, it, result, returned, ncalls>>
  /\ UNCHANGED <<nGrad, nUpd, ncb, solver>>

\* 'maxiter': Nepochs.  The solver counts an iteration, calls the callback
\* and only then compares the count with maxiter, so one iteration is made
\* even for maxiter = 0.
MaxIter(N) == IF N = 0 THEN 1 ELSE N

\* lines 180-190, called by the solver after a step to xk: the callback `cb`.
SolverCallback(xk) ==
  /\ pc = "lbfgs"
  /\ nObj >= 1
  /\ ncb < MaxIter(Nepochs)
  /\ Len(xk) = Len(pstart0)
  /\ ncb' = ncb + 1
  /\ iteration' = iteration + 1
  /\ IF of_last = <<>>
       THEN /\ err' = AttrError
            /\ pc' = "idle"
            /\ UNCHANGED <<lists, params, arrays>>
       ELSE /\ lists' = [lists EXCEPT ![of_list] = Append(@, of_last[1])]
            /\ params' = "fresh"
            /\ arrays' = [arrays EXCEPT !["fresh"] = xk]
            /\ UNCHANGED <<err, pc>>
  /\ UNCHANGED <<jac, of_list, of_last, bounds, Nepochs>>
  /\ UNCHANGED <<method, boundsArg, pstart0, it, result, returned, ncalls>>
  /\ UNCHANGED <<clock, nObj, nGrad, nUpd, solver, objres, ret>>

\* lines 204-207: return (res.x, self.of_list); the solver has evaluated
\* the objective at least once, at the starting point.
LbfgsReturn ==
  /\ pc = "lbfgs"
  /\ nObj >= 1
  /\ pc' = "idle"
  /\ result' = [x |-> arrays[params], xref |-> params, trace |-> of_list]
  /\ returned' = Append(returned, [trace |-> of_list, snap |-> lists[of_list]])
  /\ UNCHANGED <<self, heap, ghost>>
  /\ UNCHANGED <<method, boundsArg, pstart0, it, err, ncalls>>

\* ------------------------------------------------------------ specifications
\* One call on a new instance, over every shape of bounds.  The solver's
\* gradient and iterates are opaque to the adapter, one value of each is
\* enough; the starting vectors of lbfgs are the constant ones.
Uniform(n, S) == { Const(n, v) : v \in S }

\* the caller is free to make another call, of at most `limit`
CanCall(limit) == pc = "idle" /\ ncalls < limit

\* the length of the parameter vector of the call in progress
Size == Len(pstart0)

Next ==
  \/ /\ CanCall(1)
     /\ \E n \in 1..MaxN : \E ps \in Vecs(n, StartVals), N \in 0..MaxEpochs, b \in BoundsArgs :
          AdamCall(ps, N, b)
  \/ /\ CanCall(1)
     /\ \E n \in 1..MaxN : \E ps \in Uniform(n, StartVals), N \in 0..MaxEpochs, b \in BoundsArgs :
          LbfgsCall(ps, N, b)
  \/ /\ pc = "adam"
     /\ \E bx \in BOOLEAN, d \in Vecs(Size, DispVals) : AdamIter(bx, d)
  \/ AdamReturn
  \/ \E bx \in BOOLEAN : SolverEval(bx, Const(Size, 1))
  \/ SolverCallback(Const(Size, 0))
  \/ LbfgsReturn

Spec == Init /\ [][Next]_vars

\* A sequence of calls on one instance, over a few inputs.
SeqStarts == {<<1>>, <<4, 4>>}
SeqBounds == {NoBounds, BoundsList(<<Num(0), Num(2)>>),
              BoundsList(<<Pair(0, 2), Pair(1, 3)>>),
              BoundsList(<<Pair(0, 2), Pair(1, 3), Pair(0, 2)>>)}

NextSeq ==
  \/ /\ CanCall(MaxCalls)
     /\ \E ps \in SeqStarts, N \in 0..MaxEpochs, b \in SeqBounds : AdamCall(ps, N, b)
  \/ /\ CanCall(MaxCalls)
     /\ \E ps \in SeqStarts, N \in 0..MaxEpochs, b \in SeqBounds : LbfgsCall(ps, N, b)
  \/ \E bx \in BOOLEAN : AdamIter(bx, Const(Size, 2))
  \/ AdamReturn
  \/ \E bx \in BOOLEAN : SolverEval(bx, Const(Size, 1))
  \/ SolverCallback(Const(Size, 0))
  \/ LbfgsReturn

SpecSeq == Init /\ [][NextSeq]_vars

\* ------------------------------------------------------------------ claims
\* What the caller means by the bounds argument b for n parameters.
IsFlat(b) == ~b.isNone /\ Len(b.items) = 2 /\ b.items[1].rank = 0
IsPerParam(b, n) == ~b.isNone /\ Len(b.items) = n /\ b.items[1].rank = 1
Malformed(b, n) == ~b.isNone /\ Len(b.items) \notin {2, n}
Lb(b, i) == IF IsFlat(b) THEN b.items[1].flat[1] ELSE b.items[i].flat[1]
Ub(b, i) == IF IsFlat(b) THEN b.items[2].flat[1] ELSE b.items[i].flat[2]

Called == method # "none"
Returned == Called /\ pc = "idle" /\ err = "none"
Trace == lists[of_list]
Current == arrays[params]

\* C1: for well-formed bounds ([lb, ub], or one (lb, ub) pair per
\* parameter) _parse_bounds returns a list of exactly n entries, each an
\* (lb, ub) pair of numbers; for a sequence of any other length it raises
\* the configuration error; for None it returns None.
C1_ParseContract ==
  Called =>
    LET n == Len(pstart0)
    IN  /\ boundsArg.isNone => (err # ConfigError /\ bounds.isNone)
        /\ (IsFlat(boundsArg) \/ IsPerParam(boundsArg, n)) =>
             /\ err # ConfigError
             /\ ~bounds.isNone
             /\ Len(bounds.items) = n
             /\ \A i \in 1..n : bounds.items[i].rank = 1
        /\ Malformed(boundsArg, n) => err = ConfigError

\* C2: a sequence of n per-parameter (lb_i, ub_i) pairs comes back as it
\* was given, for every n, so that parameter i gets its own pair.
C2_PerParamAsIs ==
  (Called /\ IsPerParam(boundsArg, Len(pstart0))) =>
     /\ bounds = boundsArg
     /\ \A i \in 1..Len(pstart0) : bounds.items[i] = boundsArg.items[i]

\* C3: with bounds supplied to adam (lb_i <= ub_i) and Nepochs >= 1, at the
\* end of every loop iteration and in the returned vector every parameter
\* lies in its own [lb_i, ub_i], whatever the start and the gradients.
C3_WithinBounds ==
  (/\ method = "adam"
   /\ err = "none"
   /\ IsFlat(boundsArg) \/ IsPerParam(boundsArg, Len(pstart0))
   /\ (pc = "adam" /\ it >= 1) \/ (pc = "idle" /\ Nepochs >= 1)) =>
     /\ \A i \in 1..Len(pstart0) :
          /\ Lb(boundsArg, i) <= Current[i]
          /\ Current[i] <= Ub(boundsArg, i)
     /\ pc = "idle" =>
          \A i \in 1..Len(pstart0) :
            /\ Lb(boundsArg, i) <= result.x[i]
            /\ result.x[i] <= Ub(boundsArg, i)

\* C3's case: three parameters with their own bounds, a start that has an
\* element below its lower bound and one above its upper bound, and the
\* first iteration done.
C3_Witness ==
  /\ method = "adam"
  /\ pc = "adam"
  /\ it >= 1
  /\ Len(pstart0) = 3
  /\ IsPerParam(boundsArg, 3)
  /\ \E i \in 1..3 : pstart0[i] < Lb(boundsArg, i)
  /\ \E i \in 1..3 : pstart0[i] > Ub(boundsArg, i)
  /\ \A i \in 1..3 : Lb(boundsArg, i) <= Current[i] /\ Current[i] <= Ub(boundsArg, i)

\* C4: adam or lbfgs with malformed bounds raises the configuration error
\* before the objective or the gradient is evaluated once and before the
\* solver is invoked.
C4_FailFast ==
  (Called /\ Malformed(boundsArg, Len(pstart0))) =>
     /\ err = ConfigError
     /\ pc = "idle"
     /\ nObj = 0
     /\ nGrad = 0
     /\ ~solver

\* C4's case: lbfgs called with a list of pairs of the wrong length.
C4_Witness ==
  /\ method = "lbfgs"
  /\ Malformed(boundsArg, Len(pstart0))
  /\ err = ConfigError
  /\ clock = 0

\* C5: every callback invocation appends exactly one entry to the trace,
\* the unwrapped value of the latest objective-wrapper call, adds one to
\* the iteration counter and evaluates nothing.
C5_CallbackRecords ==
  [][(ncb' = ncb + 1) =>
       /\ lists' = [lists EXCEPT ![of_list] = Append(@, GetValue(PyList(objres)[1]))]
       /\ of_list' = of_list
       /\ iteration' = iteration + 1
       /\ nObj' = nObj
       /\ clock' = clock]_vars

\* C5's case: in the second call on the instance, a callback that follows
\* two wrapper calls has recorded the value of the second.
C5_Witness ==
  /\ method = "lbfgs"
  /\ ncalls = 2
  /\ nObj = 2
  /\ ncb >= 1
  /\ Len(Trace) = ncb
  /\ Trace[Len(Trace)] = Plain(clock)

\* C6: every call that gets past its bounds starts with counter 0 and an
\* empty trace: the counter counts this call's iterations, the trace holds
\* only values evaluated by this call, each call hands back a list of its
\* own, and a trace handed back earlier keeps its content.
C6_CallsIndependent ==
  /\ (Called /\ err = "none") =>
       /\ iteration = (IF method = "adam" THEN it ELSE ncb)
       /\ Len(Trace) = iteration
       /\ \A k \in 1..Len(Trace) :
            /\ ~Trace[k].box
            /\ Trace[k].val > clock - nObj
            /\ Trace[k].val <= clock
  /\ Returned => result.trace = of_list
  /\ \A i \in 1..Len(returned) : lists[returned[i].trace] = returned[i].snap
  /\ \A i, j \in 1..Len(returned) : i # j => returned[i].trace # returned[j].trace

\* C6's case: two calls have returned, each with a trace that is not empty.
C6_Witness ==
  /\ pc = "idle"
  /\ Len(returned) = 2
  /\ returned[1].snap # <<>>
  /\ returned[2].snap # <<>>

\* C7: adam with Nepochs = 0 evaluates neither the objective nor the
\* gradient and returns the starting vector, unchanged, and an empty trace.
C7_ZeroEpochs ==
  (method = "adam" /\ err = "none" /\ Nepochs = 0) =>
     /\ nObj = 0
     /\ nGrad = 0
     /\ it = 0
     /\ Current = pstart0
     /\ pc = "idle" =>
          /\ result.x = pstart0
          /\ result.xref = "pstart"
          /\ lists[result.trace] = <<>>

\* C7's case: a second call, with bounds and a start outside them, has
\* returned after an earlier call left a trace behind.
C7_Witness ==
  /\ method = "adam"
  /\ Returned
  /\ Nepochs = 0
  /\ IsFlat(boundsArg)
  /\ pstart0[1] > Ub(boundsArg, 1)
  /\ Len(returned) = 2
  /\ returned[1].snap # <<>>

\* C8: an adam run of N >= 1 epochs evaluates the objective and appends a
\* trace entry in each iteration, and applies the update in iterations
\* 0..N-2 only: after k iterations min(k, N-1) updates are applied, and at
\* the return the trace has N entries, the counter is N and N-1 updates
\* were applied (without bounds each moved every parameter by the
\* displacement 2 of this specification).
C8_SkipsLastUpdate ==
  (method = "adam" /\ err = "none" /\ Nepochs >= 1) =>
     /\ nObj = it
     /\ Len(Trace) = it
     /\ iteration = it
     /\ nUpd = (IF it <= Nepochs - 1 THEN it ELSE Nepochs - 1)
     /\ boundsArg.isNone =>
          \A k \in 1..Len(pstart0) : Current[k] = pstart0[k] - 2 * nUpd
     /\ pc = "idle" =>
          /\ it = Nepochs
          /\ Len(lists[result.trace]) = Nepochs
          /\ nUpd = Nepochs - 1
          /\ result.x = Current

\* C8's case: a second call, with Nepochs = 2, has returned.
C8_Witness ==
  /\ method = "adam"
  /\ Returned
  /\ ncalls = 2
  /\ Nepochs = 2
  /\ iteration = 2
  /\ nUpd = 1

\* C9: in both jac modes the objective wrapper hands the objective's
\* result to the solver unchanged and caches the unwrapped value, without
\* raising.
C9_WrapperReturns ==
  (method = "lbfgs" /\ nObj >= 1) =>
     /\ err # IterError
     /\ ret = objres
     /\ of_last = <<GetValue(objres.items[1])>>

\* C10: an adam call leaves the element values of the caller's pstart as
\* they were.
C10_PstartUntouched ==
  method = "adam" => arrays.pstart = pstart0
====
